---------------------------- MODULE Spec2Model ----------------------------
(***************************************************************************)
(* The generator newton of fatiando/inversion/gradient.py as a state       *)
(* machine.  One state is the generator's frame (its locals), the array    *)
(* objects it holds references to, and what the caller has received so     *)
(* far.  One action is one request for the next element (next()): the      *)
(* frame runs from where it is suspended to the next yield, to the end of  *)
(* the function, or to an exception.                                       *)
(*                                                                         *)
(* Numbers are exact rationals [n |-> numerator, d |-> denominator], kept  *)
(* in lowest terms with d > 0.  The parameter vector has one component     *)
(* (nparams = 1): an array is held as that component, the Hessian is a     *)
(* 1 x 1 matrix, and the linear system H * dp = -g is singular iff H = 0.  *)
(***************************************************************************)
EXTENDS Integers, Sequences, FiniteSets

\* Bounds of the model.
MaxDms == 2
MaxRegs == 1
MaxIt == 3

VARIABLES
    dms,        \* argument: the list of data modules
    regs,       \* argument: the list of regularizers
    step,       \* argument: the step size
    maxit,      \* argument: the iteration budget
    tol,        \* argument: the relative tolerance
    scalarKind, \* the float type the contributors return: "python" or "numpy"
    initial,    \* the caller's reference to the array passed as `initial`
    initial0,   \* the content of that array when newton was called
    heap,       \* the array objects: reference -> content
    pc,         \* the generator: "created", "suspended" (at the yield), "finished"
    p,          \* local p: a reference into heap
    i,          \* local i: the loop variable
    residuals,  \* local residuals
    misfits,    \* local misfits: the one list every changeset refers to
    goals,      \* local goals: the one list every changeset refers to
    calls,      \* how often each contributor method and the linear solver ran
    emits,      \* the changesets yielded so far, each with what it held when yielded
    outcome,    \* what the last request returned or raised
    err         \* the exception that ended the generator, "none" if none did

vars == <<dms, regs, step, maxit, tol, scalarKind, initial, initial0, heap, pc,
          p, i, residuals, misfits, goals, calls, emits, outcome, err>>

args == <<dms, regs, step, maxit, tol, scalarKind, initial, initial0>>

----------------------------------------------------------------------------
\* Exact rational arithmetic.

Abs(x) == IF x < 0 THEN -x ELSE x

RECURSIVE Gcd(_, _)
Gcd(a, b) == IF b = 0 THEN a ELSE Gcd(b, a % b)

Norm(n, d) ==
    LET s == IF d < 0 THEN -1 ELSE 1
        g == Gcd(Abs(n), Abs(d))
    IN  [n |-> (s * n) \div g, d |-> (s * d) \div g]

R(n, d) == Norm(n, d)
Zero == [n |-> 0, d |-> 1]
Lcm(a, b) == (a \div Gcd(a, b)) * b

RAdd(x, y) ==
    LET l == Lcm(x.d, y.d)
    IN  Norm(x.n * (l \div x.d) + y.n * (l \div y.d), l)
RNeg(x) == [n |-> -x.n, d |-> x.d]
RSub(x, y) == RAdd(x, RNeg(y))
RMul(x, y) ==
    LET a == Norm(x.n, y.d)
        b == Norm(y.n, x.d)
    IN  Norm(a.n * b.n, a.d * b.d)
RDiv(x, y) == RMul(x, Norm(y.d, y.n))
RAbs(x) == [n |-> Abs(x.n), d |-> x.d]
RLeq(x, y) ==
    LET l == Lcm(x.d, y.d)
    IN  x.n * (l \div x.d) <= y.n * (l \div y.d)
RLt(x, y) == RLeq(x, y) /\ x # y


----------------------------------------------------------------------------
\* The contributors.  A data module is [a, b, data]: the forward model
\* predict(p) = a * p[0] + b * p[0]^2 bound to one observation, with the
\* squared residual as misfit and the Gauss-Newton Hessian.  A regularizer is
\* [mu]: the damping penalty mu * p[0]^2.

Two == [n |-> 2, d |-> 1]

get_predicted(d, pv) == RAdd(RMul(d.a, pv), RMul(d.b, RMul(pv, pv)))
jacobian(d, pv) == RAdd(d.a, RMul(Two, RMul(d.b, pv)))
get_misfit(d, res) == RMul(res, res)
dm_sum_gradient(d, gradient, pv, res) ==
    RSub(gradient, RMul(Two, RMul(jacobian(d, pv), res)))
dm_sum_hessian(d, hessian, pv) ==
    RAdd(hessian, RMul(Two, RMul(jacobian(d, pv), jacobian(d, pv))))

value(r, pv) == RMul(r.mu, RMul(pv, pv))
reg_sum_gradient(r, gradient, pv) == RAdd(gradient, RMul(Two, RMul(r.mu, pv)))
reg_sum_hessian(r, hessian, pv) == RAdd(hessian, RMul(Two, r.mu))

\* The arguments the model draws from.
Linear(y) == [a |-> R(1, 1), b |-> R(0, 1), data |-> y]
Quadratic(y) == [a |-> R(0, 1), b |-> R(1, 1), data |-> y]
LinearModules == {Linear(R(0, 1)), Linear(R(5, 1))}
QuadraticModules == {Quadratic(R(-1, 1))}
Regularizers == [mu : {R(1, 1)}]
Initials == {R(0, 1), R(1, 1)}
Steps == {R(1, 1), R(1, 2)}
DefaultTol == R(1, 100000)
Tols == {DefaultTol, R(3, 20), R(1, 1)}
ScalarKinds == {"python", "numpy"}
SeqsUpTo(S, n) == UNION {[1..k -> S] : k \in 0..n}

----------------------------------------------------------------------------
\* newton, statement by statement.

NoCalls ==
    [get_predicted |-> 0, get_misfit |-> 0, value |-> 0, sum_gradient |-> 0,
     sum_hessian |-> 0, linsys_solver |-> 0]

\* A check that lets an empty list through.
NeverEmpty(ds) == Len(ds) < 0

\* if len(dms) == 0: raise ValueError
EmptyCheck(ds) == Len(ds) = 0

\* residuals = [d.data - d.get_predicted(p) for d in dms]
Residuals(pv) ==
    [k \in DOMAIN dms |-> RSub(dms[k].data, get_predicted(dms[k], pv))]

\* misfit = sum(d.get_misfit(res) for d, res in izip(dms, residuals))
RECURSIVE MisfitUpTo(_, _)
MisfitUpTo(res, k) ==
    IF k = 0 THEN Zero
    ELSE RAdd(MisfitUpTo(res, k - 1), get_misfit(dms[k], res[k]))
Misfit(res) == MisfitUpTo(res, Len(dms))

\* sum(r.value(p) for r in regs)
RECURSIVE ValuesUpTo(_, _)
ValuesUpTo(pv, k) ==
    IF k = 0 THEN Zero ELSE RAdd(ValuesUpTo(pv, k - 1), value(regs[k], pv))
SumValues(pv) == ValuesUpTo(pv, Len(regs))

\* The goal without the regularizers' values.
GoalWithoutRegs(misfit, pv) == misfit

\* goal = misfit + sum(r.value(p) for r in regs)
Goal(misfit, pv) == RAdd(misfit, SumValues(pv))

\* gradient = zeros_like(p), folded over the data modules, then the regularizers
RECURSIVE DmGradientUpTo(_, _, _)
DmGradientUpTo(pv, res, k) ==
    IF k = 0 THEN Zero
    ELSE dm_sum_gradient(dms[k], DmGradientUpTo(pv, res, k - 1), pv, res[k])
RECURSIVE GradientUpTo(_, _, _)
GradientUpTo(pv, res, k) ==
    IF k = 0 THEN DmGradientUpTo(pv, res, Len(dms))
    ELSE reg_sum_gradient(regs[k], GradientUpTo(pv, res, k - 1), pv)
Gradient(pv, res) == GradientUpTo(pv, res, Len(regs))

\* hessian = zeros((nparams, nparams)), folded over chain(dms, regs)
RECURSIVE DmHessianUpTo(_, _)
DmHessianUpTo(pv, k) ==
    IF k = 0 THEN Zero ELSE dm_sum_hessian(dms[k], DmHessianUpTo(pv, k - 1), pv)
RECURSIVE HessianUpTo(_, _)
HessianUpTo(pv, k) ==
    IF k = 0 THEN DmHessianUpTo(pv, Len(dms))
    ELSE reg_sum_hessian(regs[k], HessianUpTo(pv, k - 1), pv)
Hessian(pv) == HessianUpTo(pv, Len(regs))

\* A solver that answers 0 for a singular system instead of raising.
linsys_solver_lenient(h, b) ==
    [ok |-> TRUE, x |-> IF h = Zero THEN Zero ELSE RDiv(b, h)]

\* numpy.linalg.solve(h, b): raises LinAlgError on a singular matrix.
linsys_solver(h, b) ==
    IF h = Zero THEN [ok |-> FALSE, x |-> Zero] ELSE [ok |-> TRUE, x |-> RDiv(b, h)]

\* The increment subtracted instead of added.
IncrementNegated(s, dp) == RNeg(RMul(s, dp))

\* step*linsys_solver(hessian, -1*gradient)
Increment(s, dp) == RMul(s, dp)

\* p += increment, on a numpy array: the object p refers to is changed in place.
InplaceAdd(h, ref, inc) == [h EXCEPT ![ref] = RAdd(@, inc)]

\* The value appended twice.
AppendTwice(list, v) == Append(Append(list, v), v)

\* misfits.append(misfit); goals.append(goal)
ListAppend(list, v) == Append(list, v)


\* The frame's mutable part, as one record.
Frame ==
    [heap |-> heap, residuals |-> residuals, misfits |-> misfits,
     goals |-> goals, calls |-> calls, ok |-> TRUE]

\* Lines 95-101: p = initial and the seed residuals, misfit and goal.
Seed ==
    LET pv == heap[initial]
        res == Residuals(pv)
        misfit == Misfit(res)
        goal == Goal(misfit, pv)
    IN  [heap |-> heap, residuals |-> res, misfits |-> <<misfit>>,
         goals |-> <<goal>>, ok |-> TRUE,
         calls |-> [calls EXCEPT !.get_predicted = @ + Len(dms),
                                 !.get_misfit = @ + Len(dms),
                                 !.value = @ + Len(regs)]]

\* Lines 103-117: the body of the loop up to the yield, on frame fr with p
\* bound to reference ref.  A failed linear solve leaves the frame as it was
\* (ok = FALSE), but for the calls already made.
NewtonStep(fr, ref) ==
    LET pv == fr.heap[ref]
        gradient == Gradient(pv, fr.residuals)
        hessian == Hessian(pv)
        sol == linsys_solver(hessian, RNeg(gradient))
        called == [fr.calls EXCEPT !.sum_gradient = @ + Len(dms) + Len(regs),
                                   !.sum_hessian = @ + Len(dms) + Len(regs),
                                   !.linsys_solver = @ + 1]
    IN  IF ~sol.ok
        THEN [fr EXCEPT !.ok = FALSE, !.calls = called]
        ELSE LET h2 == InplaceAdd(fr.heap, ref, Increment(step, sol.x))
                 res == Residuals(h2[ref])
                 misfit == Misfit(res)
                 goal == Goal(misfit, h2[ref])
             IN  [heap |-> h2, residuals |-> res,
                  misfits |-> ListAppend(fr.misfits, misfit),
                  goals |-> ListAppend(fr.goals, goal), ok |-> TRUE,
                  calls |-> [called EXCEPT !.get_predicted = @ + Len(dms),
                                           !.get_misfit = @ + Len(dms),
                                           !.value = @ + Len(regs)]]

\* Two passes of the loop body before the yield.
RunToYieldTwice(fr, ref) ==
    LET r == NewtonStep(fr, ref) IN IF r.ok THEN NewtonStep(r, ref) ELSE r

\* Lines 102-119: the yield is the last statement of the loop body, so one
\* resumption runs the body once.
RunToYield(fr, ref) == NewtonStep(fr, ref)

\* The loop entered only when a further pass would still fit.
LoopContinuesShort(k, n) == k + 1 < n

\* for i in xrange(maxit)
LoopContinues(k, n) == k < n

\* The comparison made strict.
ConvergedStrict(change, t) == RLt(change, t)

\* abs(...) <= tol
Converged(change, t) == RLeq(change, t)

\* Line 122: abs((goals[-1] - goals[-2])/goals[-2]) <= tol.  A zero goals[-2]
\* raises ZeroDivisionError on Python floats; on numpy floats the quotient is
\* nan or inf and the comparison is False.
StoppingTest(gs) ==
    LET last == gs[Len(gs)]
        prev == gs[Len(gs) - 1]
    IN  IF prev = Zero
        THEN IF scalarKind = "python" THEN "ZeroDivisionError" ELSE "continue"
        ELSE IF Converged(RAbs(RDiv(RSub(last, prev), prev)), tol)
             THEN "break" ELSE "continue"

\* yield {'estimate':p, 'misfits':misfits, 'goals':goals, 'dms':dms}: the
\* changeset holds the references; the *_then fields record what they held
\* when the changeset was handed over.
Changeset(fr, ref) ==
    [estimate |-> ref, estimate_then |-> fr.heap[ref],
     misfits_then |-> fr.misfits, goals_then |-> fr.goals]

----------------------------------------------------------------------------
\* The generator's transitions.

\* The frame stored back, without a yield.
Store(fr) ==
    /\ heap' = fr.heap
    /\ residuals' = fr.residuals
    /\ misfits' = fr.misfits
    /\ goals' = fr.goals
    /\ calls' = fr.calls

\* The generator ends: by returning (e = "none") or by raising e.
Finish(e) ==
    /\ pc' = "finished"
    /\ err' = e
    /\ outcome' = IF e = "none" THEN "StopIteration" ELSE e

\* Pass k of the loop from frame fr, up to the yield or the solver's error.
Pass(fr, ref, k) ==
    LET r == RunToYield(fr, ref)
    IN  /\ Store(r)
        /\ p' = ref
        /\ i' = k
        /\ IF r.ok
           THEN /\ pc' = "suspended"
                /\ outcome' = "yield"
                /\ emits' = Append(emits, Changeset(r, ref))
                /\ err' = err
           ELSE /\ Finish("LinAlgError")
                /\ emits' = emits

\* The first next(): from the top of the function.
NextFirst ==
    /\ pc = "created"
    /\ IF EmptyCheck(dms)
       THEN /\ Finish("ValueError")
            /\ UNCHANGED <<heap, p, i, residuals, misfits, goals, calls, emits>>
       ELSE IF LoopContinues(0, maxit)
            THEN Pass(Seed, initial, 0)
            ELSE /\ Store(Seed)
                 /\ p' = initial
                 /\ Finish("none")
                 /\ UNCHANGED <<i, emits>>
    /\ UNCHANGED args

\* A later next(): from the yield.
NextResume ==
    /\ pc = "suspended"
    /\ LET t == StoppingTest(goals)
       IN  IF t = "continue" /\ LoopContinues(i + 1, maxit)
           THEN Pass(Frame, p, i + 1)
           ELSE /\ Finish(IF t = "ZeroDivisionError" THEN t ELSE "none")
                /\ UNCHANGED <<heap, p, i, residuals, misfits, goals, calls, emits>>
    /\ UNCHANGED args

\* next() on a generator that has ended: StopIteration, nothing runs.
NextFinished ==
    /\ pc = "finished"
    /\ outcome' = "StopIteration"
    /\ UNCHANGED <<heap, pc, p, i, residuals, misfits, goals, calls, emits, err>>
    /\ UNCHANGED args

\* newton(dms, initial, regs, step, maxit, tol) has returned the generator;
\* none of its body has run.
Init ==
    /\ \/ dms \in SeqsUpTo(LinearModules, MaxDms) /\ step \in Steps
       \/ dms \in SeqsUpTo(QuadraticModules, MaxDms) /\ step = R(1, 1)
    /\ regs \in SeqsUpTo(Regularizers, MaxRegs)
    /\ maxit \in 0..MaxIt
    /\ tol \in Tols
    /\ scalarKind \in ScalarKinds
    /\ initial = 1
    /\ initial0 \in Initials
    /\ heap = <<initial0>>
    /\ pc = "created"
    /\ p = 0
    /\ i = 0
    /\ residuals = <<>>
    /\ misfits = <<>>
    /\ goals = <<>>
    /\ calls = NoCalls
    /\ emits = <<>>
    /\ outcome = "none"
    /\ err = "none"

Next == NextFirst \/ NextResume \/ NextFinished

Spec == Init /\ [][Next]_vars

----------------------------------------------------------------------------
\* What the claims speak of.

Emitted == Len(emits)

\* The relative change of the goal at the k-th changeset (k = 1 is the first),
\* read off the goals list, which is only ever appended to.
ChangeDefined(k) == goals[k] # Zero
Change(k) == RAbs(RDiv(RSub(goals[k + 1], goals[k]), goals[k]))
WithinTol(k) == ChangeDefined(k) /\ RLeq(Change(k), tol)

\* The parameters the next pass of the loop would start from.
CurrentParams == IF pc = "created" THEN heap[initial] ELSE heap[p]

\* The next request will run a pass of the loop.
PassDue ==
    \/ pc = "created" /\ Len(dms) > 0 /\ maxit > 0
    \/ /\ pc = "suspended"
       /\ i + 1 < maxit
       /\ ~WithinTol(Emitted)
       /\ ~(scalarKind = "python" /\ ~ChangeDefined(Emitted))

\* The scenario of C5: one data module predict(p) = p[0] with observation 5,
\* initial p = [0], step 1, no regularizers, the default tolerance.
Scenario ==
    /\ dms = <<Linear(R(5, 1))>>
    /\ regs = <<>>
    /\ initial0 = R(0, 1)
    /\ step = R(1, 1)
    /\ tol = DefaultTol

\* C1: the solver goes on past a changeset only if the relative change of the
\* goal there is not <= tol (or is undefined), a changeset whose relative change
\* is <= tol is followed by normal termination, and a sequence that ends
\* normally before the budget is used up ends on a changeset whose relative
\* change is <= tol: the last changeset is the first one within tol, boundary
\* included.
C1_StoppingRule ==
    /\ \A k \in 1..(Emitted - 1) : ~WithinTol(k)
    /\ (pc = "finished" /\ Emitted >= 1 /\ WithinTol(Emitted)) => err = "none"
    /\ (pc = "finished" /\ err = "none" /\ Emitted >= 1 /\ Emitted < maxit)
          => WithinTol(Emitted)

\* The boundary case: the change is exactly tol at the second changeset and
\* larger at the first, and the sequence has ended there with budget left.
C1_Witness ==
    /\ pc = "finished" /\ err = "none"
    /\ Emitted = 2 /\ maxit > 2
    /\ ChangeDefined(1) /\ RLt(tol, Change(1))
    /\ ChangeDefined(2) /\ Change(2) = tol

\* C2: the k-th changeset (k = 1 is the first, the claim's k + 1) held, when
\* it was handed over, misfits and goals of length k + 1: the seed and one
\* value per completed pass, and these are the first k + 1 entries of the
\* lists now; at a yield both lists have one entry more than passes completed.
C2_HistoryLengths ==
    /\ \A k \in 1..Emitted :
          /\ Len(emits[k].misfits_then) = k + 1
          /\ Len(emits[k].goals_then) = k + 1
          /\ emits[k].misfits_then = SubSeq(misfits, 1, k + 1)
          /\ emits[k].goals_then = SubSeq(goals, 1, k + 1)
    /\ pc = "suspended" =>
          /\ Emitted = i + 1
          /\ Len(misfits) = Emitted + 1
          /\ Len(goals) = Emitted + 1

C2_Witness == pc = "suspended" /\ Emitted = 3

\* C3, as stated: once newton has been called with an empty list of data
\* modules, the ValueError has been raised.
C3_RaisedByTheCall == Len(dms) = 0 => err = "ValueError"

\* C3, amended: with an empty list of data modules the call itself raises
\* nothing; the first request raises ValueError, and neither before nor after
\* it has a changeset been emitted, a contributor method or the solver been
\* called, or anything been computed.
C3_RaisedByFirstRequest ==
    Len(dms) = 0 =>
        /\ pc = "created" => err = "none" /\ outcome = "none"
        /\ pc # "created" => pc = "finished" /\ err = "ValueError"
        /\ emits = <<>>
        /\ calls = NoCalls
        /\ heap[initial] = initial0
        /\ misfits = <<>> /\ goals = <<>>

C3_Witness == Len(dms) = 0 /\ err = "ValueError" /\ outcome = "ValueError"

\* C4, as stated (for the runs that raise nothing): with a non-empty list of
\* data modules, a request has emitted a changeset whatever maxit is.
C4_AlwaysOneChangeset ==
    (Len(dms) > 0 /\ pc # "created" /\ err = "none") => Emitted >= 1

\* C4, amended: with a non-empty list of data modules and maxit >= 1 the first
\* request emits a changeset unless its linear solve fails; with maxit = 0 no
\* changeset is emitted and the sequence ends normally.
C4_OneChangesetIfBudget ==
    (Len(dms) > 0 /\ pc # "created") =>
        /\ (maxit >= 1 /\ err # "LinAlgError") => Emitted >= 1
        /\ (maxit >= 1 /\ Emitted = 0) => /\ err = "LinAlgError"
                                          /\ Hessian(heap[initial]) = Zero
        /\ maxit = 0 => Emitted = 0 /\ pc = "finished" /\ err = "none"

C4_Witness == Len(dms) > 0 /\ maxit = 1 /\ Emitted = 1 /\ outcome = "yield"

\* C5, as stated: in the scenario exactly one changeset is emitted.
C5_ExactlyOneChangeset == Scenario => Emitted <= 1

\* C5, amended: in the scenario every changeset has estimate [5] and final
\* misfit 0, the goals start 25, 0; the sequence does not end on the first
\* changeset when maxit >= 2 (its relative change is 1 > tol): a second one
\* with the same estimate follows, after which the test divides 0 by 0; so
\* the sequence ends normally only with the budget used up, and the only
\* error is the ZeroDivisionError of Python floats after the second changeset.
C5_ConvergesButGoesOn ==
    Scenario =>
        /\ \A k \in 1..Emitted :
              /\ emits[k].estimate_then = R(5, 1)
              /\ emits[k].misfits_then[k + 1] = Zero
              /\ emits[k].goals_then[1] = R(25, 1)
              /\ emits[k].goals_then[k + 1] = Zero
        /\ (pc = "finished" /\ maxit >= 2) => Emitted >= 2
        /\ (pc = "finished" /\ err = "none") => Emitted = maxit
        /\ err # "none" =>
              err = "ZeroDivisionError" /\ scalarKind = "python" /\ Emitted = 2

C5_Witness == Scenario /\ Emitted = 2 /\ pc = "suspended"

\* C6: every changeset's estimate still holds the parameters it held when it
\* was emitted, and the caller's initial vector holds what it held at the call.
C6_EstimatesAreCopies ==
    /\ \A k \in 1..Emitted : heap[emits[k].estimate] = emits[k].estimate_then
    /\ heap[initial] = initial0

\* C7: a request whose linear solve fails ends the generator with the solver's
\* error, emits nothing, and leaves the parameters and the misfits and goals
\* as they were at the last changeset (nothing appended: the seed only, if
\* there was none); after an error no request emits or changes anything.
C7_SolveFailure ==
    [][ /\ (PassDue /\ Hessian(CurrentParams) = Zero) =>
              /\ pc' = "finished"
              /\ err' = "LinAlgError" /\ outcome' = "LinAlgError"
              /\ emits' = emits
              /\ heap' = heap
              /\ Len(misfits') = Emitted + 1 /\ Len(goals') = Emitted + 1
              /\ pc = "suspended" =>
                    /\ misfits' = misfits /\ goals' = goals
                    /\ heap'[p] = emits[Emitted].estimate_then
                    /\ misfits' = emits[Emitted].misfits_then
                    /\ goals' = emits[Emitted].goals_then
        /\ err # "none" =>
              UNCHANGED <<pc, err, emits, heap, misfits, goals, calls>>
      ]_vars

C7_Witness == err = "LinAlgError" /\ Emitted >= 1

\* C8: at most maxit changesets are emitted, and a sequence that has ended
\* after maxit changesets, none of them within tol, has ended without error.
C8_BudgetEndsNormally ==
    /\ Emitted <= maxit
    /\ (/\ pc = "finished"
        /\ maxit >= 1 /\ Emitted = maxit
        /\ \A k \in 1..Emitted : ~WithinTol(k)) => err = "none"

\* C9: a request emits at most one changeset, and one that emits has run the
\* loop body exactly once: one gradient and one Hessian accumulation over all
\* contributors, one linear solve, one recomputation; at a yield nothing of
\* the next pass has run: solves and accumulations made equal the changesets
\* handed over.
C9_OnePassPerRequest ==
    /\ [][ /\ Len(emits') <= Emitted + 1
           /\ Len(emits') = Emitted + 1 =>
                 /\ pc' = "suspended" /\ outcome' = "yield"
                 /\ SubSeq(emits', 1, Emitted) = emits
                 /\ calls'.linsys_solver = calls.linsys_solver + 1
                 /\ calls'.sum_gradient = calls.sum_gradient + Len(dms) + Len(regs)
                 /\ calls'.sum_hessian = calls.sum_hessian + Len(dms) + Len(regs)
                 /\ Len(goals') = Len(goals) + (IF pc = "created" THEN 2 ELSE 1)
      ]_vars
    /\ [](pc = "suspended" =>
             /\ calls.linsys_solver = Emitted
             /\ calls.sum_gradient = Emitted * (Len(dms) + Len(regs))
             /\ calls.sum_hessian = Emitted * (Len(dms) + Len(regs))
             /\ calls.get_predicted = (Emitted + 1) * Len(dms)
             /\ calls.get_misfit = (Emitted + 1) * Len(dms)
             /\ calls.value = (Emitted + 1) * Len(regs))

C9_Witness == pc = "suspended" /\ Emitted = 2 /\ calls.linsys_solver = 2

\* C10: at a yield the last misfit is the sum of the data modules' misfits at
\* the changeset's updated estimate, the last goal is that plus the sum of the
\* regularizers' values there, the residuals kept for the next gradient are
\* those of that estimate, and without regularizers goals equals misfits.
C10_HistoryInStep ==
    pc = "suspended" =>
        LET pv == heap[emits[Emitted].estimate]
            res == [k \in DOMAIN dms |-> RSub(dms[k].data, get_predicted(dms[k], pv))]
        IN  /\ pv = emits[Emitted].estimate_then
            /\ residuals = res
            /\ misfits[Len(misfits)] = MisfitUpTo(res, Len(dms))
            /\ goals[Len(goals)] =
                  RAdd(misfits[Len(misfits)], ValuesUpTo(pv, Len(regs)))
            /\ regs = <<>> => goals = misfits

C10_Witness ==
    /\ pc = "suspended" /\ Emitted = 2 /\ Len(regs) > 0
    /\ goals[3] # misfits[3] /\ heap[p] # initial0

============================================================================
